---- MODULE Spec2Model ----
(***************************************************************************)
(* RoundTrip: the depth-first search of src/src/main.rs that enumerates    *)
(* the closed tours of an n x m dot lattice.  The recursion of check_board *)
(* is unfolded into an explicit stack of call frames; one action is one    *)
(* step of the function body (entry, one iteration of the neighbour loop,  *)
(* the backtrack tail, the return into the caller).                        *)
(***************************************************************************)
EXTENDS Integers, Sequences, FiniteSets, TLC

N_MAX == 20
M_MAX == 20
\* side of the square array  [[bool; N_MAX * M_MAX]; N_MAX * M_MAX]
BoardDim == N_MAX * M_MAX

\* bounds of the inputs explored
MaxN == 6
MaxM == 6

VARIABLES
    n, m,               \* the dimensions handed to the core
    board,              \* the set of pairs <<i, j>> with board[i][j] = true
    rim_vertices,       \* Vec<usize>, a sequence (index k of the code is k+1 here)
    solution_path,      \* Vec<usize>
    metrics,            \* struct Metrics (without the clock)
    stack,              \* the active calls of check_board that are inside the loop
    vertice_to_visit,   \* the argument v of the call being entered / just returned
    pc,                 \* position of the program
    prior               \* what an earlier run of the core ended with (<<>> if none)

vars == <<n, m, board, rim_vertices, solution_path, metrics, stack,
          vertice_to_visit, pc, prior>>

----------------------------------------------------------------------------
(* Metrics::new *)
NewMetrics ==
    [check_counter |-> 0, fail_counter_1 |-> 0, fail_counter_2 |-> 0,
     fail_counter_3 |-> 0, exception_counter |-> 0, solutions_counter |-> 0,
     visited_vertices |-> 0, visited_rim_vertices |-> 0]

(* Vec::contains *)
Contains(s, x) == \E k \in 1..Len(s) : s[k] = x

----------------------------------------------------------------------------
(* initialize_board, first loop: the entries set to true *)
GridEdges(nn, mm) ==
    { p \in (0..nn*mm-1) \X (0..nn*mm-1) :
        LET i == p[1]
            j == p[2]
        IN  \/ (j >= nn /\ i = j - nn)
            \/ (j > 0 /\ i = j - 1 /\ (i + 1) % nn # 0)
            \/ (i = j + 1 /\ i % nn # 0)
            \/ i = j + nn }

(* initialize_board, second and third loop: the entries set back to false *)
RimCutsKeepAnticlockwise(nn, mm) ==
    UNION { { <<i+nn+1, i+1>>, <<nn*(mm-2)+i, nn*(mm-1)+i>> } : i \in 0..nn-2 }
    \cup
    UNION { { <<j*nn+1, j*nn>>, <<(j+2)*nn-2, (j+2)*nn-1>> } : j \in 0..mm-2 }

RimCuts(nn, mm) ==
    UNION { { <<i+nn+1, i+1>>,
              <<nn*(mm-2)+i, nn*(mm-1)+i>>,
              <<i+1, i>>,
              <<nn*(mm-1)+i, nn*(mm-1)+i+1>> } : i \in 0..nn-2 }
    \cup
    UNION { { <<j*nn+1, j*nn>>,
              <<(j+2)*nn-2, (j+2)*nn-1>>,
              <<j*nn, (j+1)*nn>>,
              <<(j+2)*nn-1, (j+1)*nn-1>> } : j \in 0..mm-2 }

(* initialize_board, the four pushes that build rim_vertices *)
RimSequenceBackToStart(nn, mm) ==
    [k \in 1..nn |-> k - 1]
    \o [k \in 1..mm-1 |-> (k + 1) * nn - 1]
    \o [k \in 1..nn-1 |-> nn * mm - 1 - k]
    \o [k \in 1..mm-1 |-> nn * (mm - 1) - k * nn]

RimSequence(nn, mm) ==
    [k \in 1..nn |-> k - 1]
    \o [k \in 1..mm-1 |-> (k + 1) * nn - 1]
    \o [k \in 1..nn-1 |-> nn * mm - 1 - k]
    \o [k \in 1..mm-2 |-> nn * (mm - 1) - k * nn]

(* every index initialize_board uses lies inside the array *)
InitIndicesInRange(nn, mm) ==
    \A p \in GridEdges(nn, mm) \cup RimCuts(nn, mm) :
        p[1] \in 0..BoardDim-1 /\ p[2] \in 0..BoardDim-1

----------------------------------------------------------------------------
(* main: the objects built before initialize_board is called *)
Init ==
    /\ n \in 2..MaxN
    /\ m \in 2..MaxM
    /\ board = {}
    /\ rim_vertices = <<>>
    /\ solution_path = <<>>
    /\ metrics = NewMetrics
    /\ stack = <<>>
    /\ vertice_to_visit = 0
    /\ pc = "init"
    /\ prior = <<>>

(* initialize_board(&mut board, &mut rim_vertices, n, m) *)
InitializeBoard ==
    /\ pc = "init"
    /\ InitIndicesInRange(n, m)
    /\ board' = GridEdges(n, m) \ RimCuts(n, m)
    /\ rim_vertices' = RimSequence(n, m)
    /\ pc' = "call"
    /\ UNCHANGED <<n, m, solution_path, metrics, stack, vertice_to_visit, prior>>

----------------------------------------------------------------------------
(* check_board: entry of a call with argument v = vertice_to_visit *)

EnterAtTheRim == Contains(rim_vertices, vertice_to_visit)

(* metrics.visited_rim_vertices after the increment at the top of the call *)
EnterRimCount ==
    metrics.visited_rim_vertices + (IF EnterAtTheRim THEN 1 ELSE 0)

(* the test that guards the "no more rim" return *)
RimExhaustedTestBeforeIncrement ==
    /\ EnterAtTheRim
    /\ metrics.visited_rim_vertices = Len(rim_vertices)
    /\ metrics.visited_vertices + 1 < n * m

RimExhaustedTest ==
    /\ EnterAtTheRim
    /\ EnterRimCount = Len(rim_vertices)
    /\ metrics.visited_vertices + 1 < n * m

(* the test that guards the "solution found" return *)
AcceptTestOffByOne == metrics.visited_vertices + 2 = n * m

AcceptTest == metrics.visited_vertices + 1 = n * m

(* all rim vertices visited while vertices remain: count and return *)
RimExhausted ==
    /\ pc = "call"
    /\ RimExhaustedTest
    /\ metrics' = [metrics EXCEPT !.check_counter = @ + 1,
                                  !.visited_rim_vertices = EnterRimCount,
                                  !.fail_counter_2 = @ + 1]
    /\ pc' = "rejected"
    /\ UNCHANGED <<n, m, board, rim_vertices, solution_path, stack,
                   vertice_to_visit, prior>>

(* this is the (n*m)-th vertex: count a solution and return *)
Accept ==
    /\ pc = "call"
    /\ ~RimExhaustedTest
    /\ AcceptTest
    /\ metrics' = [metrics EXCEPT !.check_counter = @ + 1,
                                  !.visited_rim_vertices = EnterRimCount,
                                  !.solutions_counter = @ + 1]
    /\ pc' = "accepted"
    /\ UNCHANGED <<n, m, board, rim_vertices, solution_path, stack,
                   vertice_to_visit, prior>>

(* the marking of v done by a call that starts to explore *)
MarkVisitedForgotten(b, x) == b

MarkVisited(b, x) == b \cup {<<x, x>>}

(* let mut store_j = 0; let mut store_next_rim_vertice = 0; *)
NoReturnEdgeFirstEdge == [store_j |-> 0, store_next_rim_vertice |-> 1]

NoReturnEdge == [store_j |-> 0, store_next_rim_vertice |-> 0]

(* the off-diagonal entries of the board that are true *)
OffDiagonal(b) == { p \in b : p[1] # p[2] }

(* mark v visited, push it on the path and start the loop over i
   (board_on_entry is not a local of the code: it remembers the off-diagonal
   entries at the entry of the call, for the frame properties) *)
Explore ==
    /\ pc = "call"
    /\ ~RimExhaustedTest
    /\ ~AcceptTest
    /\ metrics' = [metrics EXCEPT !.check_counter = @ + 1,
                                  !.visited_rim_vertices = EnterRimCount]
    /\ board' = MarkVisited(board, vertice_to_visit)
    /\ solution_path' = Append(solution_path, vertice_to_visit)
    /\ stack' = Append(stack, [v |-> vertice_to_visit,
                               at_the_rim |-> EnterAtTheRim,
                               i |-> 0,
                               store_j |-> NoReturnEdge.store_j,
                               store_next_rim_vertice |->
                                   NoReturnEdge.store_next_rim_vertice,
                               board_on_entry |-> OffDiagonal(board)])
    /\ pc' = "loop"
    /\ UNCHANGED <<n, m, rim_vertices, vertice_to_visit, prior>>

----------------------------------------------------------------------------
(* check_board: one iteration of  for i in 0..n*m  in the innermost call *)

Top == stack[Len(stack)]

(* the inner loop  for j in 0..n*m  that opens the return edge(s) *)
RECURSIVE OpenReturnEdgesNoStore(_, _, _, _, _)
OpenReturnEdgesNoStore(acc, rim, next_rim_vertice, j, size) ==
    IF j >= size THEN acc
    ELSE IF /\ <<next_rim_vertice, j>> \in acc.board
            /\ ~Contains(rim, j)
            /\ <<j, j>> \notin acc.board
         THEN OpenReturnEdgesNoStore(
                 [acc EXCEPT !.board = @ \cup {<<j, next_rim_vertice>>},
                             !.check_i = TRUE],
                 rim, next_rim_vertice, j + 1, size)
         ELSE OpenReturnEdgesNoStore(acc, rim, next_rim_vertice, j + 1, size)

RECURSIVE OpenReturnEdgesAlwaysGo(_, _, _, _, _)
OpenReturnEdgesAlwaysGo(acc, rim, next_rim_vertice, j, size) ==
    IF j >= size THEN [acc EXCEPT !.check_i = TRUE]
    ELSE IF /\ <<next_rim_vertice, j>> \in acc.board
            /\ ~Contains(rim, j)
            /\ <<j, j>> \notin acc.board
         THEN OpenReturnEdgesAlwaysGo(
                 [board |-> acc.board \cup {<<j, next_rim_vertice>>},
                  store_j |-> j,
                  store_next_rim_vertice |-> next_rim_vertice,
                  check_i |-> TRUE],
                 rim, next_rim_vertice, j + 1, size)
         ELSE OpenReturnEdgesAlwaysGo(acc, rim, next_rim_vertice, j + 1, size)

RECURSIVE OpenReturnEdges(_, _, _, _, _)
OpenReturnEdges(acc, rim, next_rim_vertice, j, size) ==
    IF j >= size THEN acc
    ELSE IF /\ <<next_rim_vertice, j>> \in acc.board
            /\ ~Contains(rim, j)
            /\ <<j, j>> \notin acc.board
         THEN OpenReturnEdges(
                 [board |-> acc.board \cup {<<j, next_rim_vertice>>},
                  store_j |-> j,
                  store_next_rim_vertice |-> next_rim_vertice,
                  check_i |-> TRUE],
                 rim, next_rim_vertice, j + 1, size)
         ELSE OpenReturnEdges(acc, rim, next_rim_vertice, j + 1, size)

(* the direction-specific tests for a step from interior vw to interior iw;
   the value is check_i *)
SplitCheck(b, rim, nn, vw, iw) ==
    LET V(x) == <<x, x>> \in b
        R(x) == Contains(rim, x)
    IN  IF vw > iw /\ vw - iw = nn
        THEN /\ ~(~V(vw+nn) /\ R(vw-1) /\ ~V(vw-1))
             /\ ~((V(iw-nn) \/ V(iw-nn-1) \/ V(iw-nn+1))
                  /\ (~V(iw-1) /\ ~V(iw+1)))
        ELSE IF vw < iw /\ iw - vw = nn
        THEN /\ ~(~V(vw-nn) /\ R(vw+1) /\ ~V(vw+1))
             /\ ~((V(iw+nn) \/ V(iw+nn-1) \/ V(iw+nn+1))
                  /\ (~V(iw-1) /\ ~V(iw+1)))
        ELSE IF vw > iw /\ vw - iw = 1
        THEN /\ ~(~V(vw+1) /\ R(vw+nn) /\ ~V(vw+nn))
             /\ ~((V(iw-1) \/ V(iw-1+nn) \/ V(iw-1-nn))
                  /\ (~V(iw+nn) /\ ~V(iw-nn)))
        ELSE IF vw < iw /\ iw - vw = 1
        THEN ~((V(iw+1) \/ V(iw+1+nn) \/ V(iw+1-nn))
               /\ (~V(iw+nn) /\ ~V(iw-nn)))
        ELSE TRUE

(* the array indices the tests of SplitCheck may read (short-circuit
   evaluation can only read fewer) *)
SplitIndices(nn, vw, iw) ==
    IF vw > iw /\ vw - iw = nn
    THEN {vw+nn, vw-1, iw-nn, iw-nn-1, iw-nn+1, iw-1, iw+1}
    ELSE IF vw < iw /\ iw - vw = nn
    THEN {vw-nn, vw+1, iw+nn, iw+nn-1, iw+nn+1, iw-1, iw+1}
    ELSE IF vw > iw /\ vw - iw = 1
    THEN {vw+1, vw+nn, iw-1, iw-1+nn, iw-1-nn, iw+nn, iw-nn}
    ELSE IF vw < iw /\ iw - vw = 1
    THEN {iw+1, iw+1+nn, iw+1-nn, iw+nn, iw-nn}
    ELSE {}

(* if board[v][i] && !board[i][i] *)
CandidateIgnoresVisited(b, vw, iw) == <<vw, iw>> \in b

Candidate(b, vw, iw) == <<vw, iw>> \in b /\ <<iw, iw>> \notin b

(* about to leave the rim for the interior: a return edge is looked for *)
NeedsReturnEdge ==
    /\ Candidate(board, Top.v, Top.i)
    /\ Top.at_the_rim
    /\ ~Contains(rim_vertices, Top.i)

(* interior to interior: the direction tests apply *)
InteriorMove ==
    /\ Candidate(board, Top.v, Top.i)
    /\ ~Top.at_the_rim
    /\ ~Contains(rim_vertices, Top.i)

(* an index outside its array: rim_vertices[visited_rim_vertices], or an
   index of board in the direction tests *)
IndexOutOfRange ==
    \/ NeedsReturnEdge /\ metrics.visited_rim_vertices >= Len(rim_vertices)
    \/ InteriorMove /\ ~(SplitIndices(n, Top.v, Top.i) \subseteq 0..BoardDim-1)

(* board, store_j, store_next_rim_vertice and check_i at  if check_i  *)
LoopBody ==
    LET keep(c) == [board |-> board,
                    store_j |-> Top.store_j,
                    store_next_rim_vertice |-> Top.store_next_rim_vertice,
                    check_i |-> c]
    IN  IF ~Candidate(board, Top.v, Top.i) THEN keep(FALSE)
        ELSE IF NeedsReturnEdge
        THEN OpenReturnEdges(keep(FALSE), rim_vertices,
                 rim_vertices[metrics.visited_rim_vertices + 1], 0, n * m)
        ELSE IF InteriorMove
        THEN keep(SplitCheck(board, rim_vertices, n, Top.v, Top.i))
        ELSE keep(TRUE)

(* the indexing panics: the process aborts *)
IndexPanic ==
    /\ pc = "loop"
    /\ Top.i < n * m
    /\ IndexOutOfRange
    /\ pc' = "panic"
    /\ UNCHANGED <<n, m, board, rim_vertices, solution_path, metrics, stack,
                   vertice_to_visit, prior>>

(* vertex i is not taken: no edge, visited, no return edge, or pruned *)
SkipNeighbour ==
    /\ pc = "loop"
    /\ Top.i < n * m
    /\ ~IndexOutOfRange
    /\ ~LoopBody.check_i
    /\ board' = LoopBody.board
    /\ stack' = [stack EXCEPT ![Len(stack)] =
                    [@ EXCEPT !.i = @ + 1,
                              !.store_j = LoopBody.store_j,
                              !.store_next_rim_vertice =
                                  LoopBody.store_next_rim_vertice]]
    /\ UNCHANGED <<n, m, rim_vertices, solution_path, metrics,
                   vertice_to_visit, pc, prior>>

(* traverse the edge from v to i: the recursive call *)
Descend ==
    /\ pc = "loop"
    /\ Top.i < n * m
    /\ ~IndexOutOfRange
    /\ LoopBody.check_i
    /\ board' = LoopBody.board
    /\ stack' = [stack EXCEPT ![Len(stack)] =
                    [@ EXCEPT !.store_j = LoopBody.store_j,
                              !.store_next_rim_vertice =
                                  LoopBody.store_next_rim_vertice]]
    /\ metrics' = [metrics EXCEPT !.visited_vertices = @ + 1]
    /\ vertice_to_visit' = Top.i
    /\ pc' = "call"
    /\ UNCHANGED <<n, m, rim_vertices, solution_path, prior>>

(* board[store_j][store_next_rim_vertice] = false *)
CloseReturnEdge(b, sj, sr) == b \ {<<sj, sr>>}

(* variant: the vertex stays marked as visited when the call gives up *)
UnmarkVisitedForgotten(b, x) == b

(* board[vertice_to_visit][vertice_to_visit] = false *)
UnmarkVisited(b, x) == b \ {<<x, x>>}

(* variant: the exhausted loop is counted in the unused fail_counter_1 *)
CountBacktrackInFailCounter1(mt) == [mt EXCEPT !.fail_counter_1 = @ + 1]

(* metrics.fail_counter_3 += 1 *)
CountBacktrack(mt) == [mt EXCEPT !.fail_counter_3 = @ + 1]

(* the loop is over: unmark v, pop it, close the stored edge, count, return *)
Backtrack ==
    /\ pc = "loop"
    /\ Top.i >= n * m
    /\ board' = CloseReturnEdge(UnmarkVisited(board, Top.v),
                                 Top.store_j, Top.store_next_rim_vertice)
    /\ solution_path' = SubSeq(solution_path, 1, Len(solution_path) - 1)
    /\ metrics' = CountBacktrack(metrics)
    /\ stack' = SubSeq(stack, 1, Len(stack) - 1)
    /\ vertice_to_visit' = Top.v
    /\ pc' = "backtracked"
    /\ UNCHANGED <<n, m, rim_vertices, prior>>

Returned == pc \in {"rejected", "accepted", "backtracked"}

(* back in the calling check_board, after the recursive call *)
ReturnToCaller ==
    /\ Returned
    /\ stack # <<>>
    /\ metrics.visited_vertices >= 1
    /\ metrics' = [metrics EXCEPT !.visited_vertices = @ - 1]
    /\ stack' = [stack EXCEPT ![Len(stack)] = [@ EXCEPT !.i = @ + 1]]
    /\ pc' = "loop"
    /\ UNCHANGED <<n, m, board, rim_vertices, solution_path,
                   vertice_to_visit, prior>>

(* back in main: the top-level call has returned *)
ReturnToMain ==
    /\ Returned
    /\ stack = <<>>
    /\ pc' = "done"
    /\ UNCHANGED <<n, m, board, rim_vertices, solution_path, metrics, stack,
                   vertice_to_visit, prior>>

Next ==
    \/ InitializeBoard
    \/ RimExhausted
    \/ Accept
    \/ Explore
    \/ IndexPanic
    \/ SkipNeighbour
    \/ Descend
    \/ Backtrack
    \/ ReturnToCaller
    \/ ReturnToMain

Spec == Init /\ [][Next]_vars

(* the search is sequential code: whatever step is enabled is taken *)
FairSpec == Spec /\ WF_vars(Next)

(* a further, independent run of the core on the same or on the transposed
   dimensions: main builds a fresh board, rim_vertices, Metrics and
   solution_path for every run *)
RerunKeepsMetrics ==
    /\ pc \in {"done", "panic"}
    /\ prior = <<>>
    /\ prior' = [n |-> n, m |-> m, pc |-> pc, metrics |-> metrics]
    /\ \E d \in {<<n, m>>, <<m, n>>} : n' = d[1] /\ m' = d[2]
    /\ board' = {}
    /\ rim_vertices' = <<>>
    /\ solution_path' = <<>>
    /\ metrics' = metrics
    /\ stack' = <<>>
    /\ vertice_to_visit' = 0
    /\ pc' = "init"

Rerun ==
    /\ pc \in {"done", "panic"}
    /\ prior = <<>>
    /\ prior' = [n |-> n, m |-> m, pc |-> pc, metrics |-> metrics]
    /\ \E d \in {<<n, m>>, <<m, n>>} : n' = d[1] /\ m' = d[2]
    /\ board' = {}
    /\ rim_vertices' = <<>>
    /\ solution_path' = <<>>
    /\ metrics' = NewMetrics
    /\ stack' = <<>>
    /\ vertice_to_visit' = 0
    /\ pc' = "init"

NextRerun == Next \/ Rerun

SpecRerun == Init /\ [][NextRerun]_vars

----------------------------------------------------------------------------
(* Reference notions the properties are stated with *)

(* the run is over: the top-level call returned, or the process aborted *)
Ended == pc \in {"done", "panic"}

(* what validate_board_size lets through *)
ValidInput ==
    /\ n <= N_MAX /\ m <= M_MAX
    /\ n <= m
    /\ n * m >= 12 /\ n * m <= 128
    /\ (n * m) % 2 = 0

(* vertex x sits at row x \div nn, column x % nn *)
LatticeAdjacent(nn, x, y) ==
    LET dr == (x \div nn) - (y \div nn)
        dc == (x % nn) - (y % nn)
    IN  (dr * dr) + (dc * dc) = 1

LatticeNeighbours(nn, mm, x) ==
    { y \in 0..nn*mm-1 : LatticeAdjacent(nn, x, y) }

(* number of ways to extend a simple path that stands at x and has visited
   seen to a Hamiltonian path whose last vertex is adjacent to vertex 0 *)
RECURSIVE Closings(_, _, _, _)
RECURSIVE SumClosings(_, _, _, _)
Closings(nn, mm, x, seen) ==
    IF Cardinality(seen) = nn * mm
    THEN IF LatticeAdjacent(nn, x, 0) THEN 1 ELSE 0
    ELSE SumClosings(nn, mm, LatticeNeighbours(nn, mm, x) \ seen, seen)

SumClosings(nn, mm, todo, seen) ==
    IF todo = {} THEN 0
    ELSE LET y == CHOOSE z \in todo : TRUE
         IN  Closings(nn, mm, y, seen \cup {y})
               + SumClosings(nn, mm, todo \ {y}, seen)

(* undirected Hamiltonian cycles of the grid graph, by brute force: every
   cycle is found once per direction of travel from vertex 0 *)
HamiltonianCycles(nn, mm) == Closings(nn, mm, 0, {0}) \div 2

(* the recursion depth: the calls of check_board that are inside their loop,
   and the call that is being entered *)
CallDepth == Len(stack) + (IF pc = "call" THEN 1 ELSE 0)

(* the active calls whose vertex is on the rim *)
RimCalls == { k \in 1..Len(stack) : stack[k].at_the_rim }

(* the search is under way *)
Searching == pc \in {"call", "loop", "accepted", "rejected", "backtracked"}

(* the return edges that are open: the true entries board[j][r] with j
   interior and r on the rim *)
ReturnEdges ==
    { p \in OffDiagonal(board) :
        ~Contains(rim_vertices, p[1]) /\ Contains(rim_vertices, p[2]) }

(* initialize_board has just returned *)
BoardInitialized == pc = "call" /\ metrics.check_counter = 0

(* the active call number k waits for the call it made to return *)
Descending(k) ==
    \/ k < Len(stack)
    \/ k = Len(stack) /\ pc \in {"call", "accepted", "rejected", "backtracked"}

(* the vertices of the grid and of its boundary, by row and column *)
Vertices == 0..n*m-1

OnBoundary(x) ==
    \/ x \div n = 0
    \/ x \div n = m - 1
    \/ x % n = 0
    \/ x % n = n - 1

(* the entry of rim_vertices that follows entry k, the last one being
   followed by the first (vertex 0) *)
RimSuccessor(k) == rim_vertices[(k % Len(rim_vertices)) + 1]

(* x and y are cyclically consecutive in rim_vertices, in either order *)
RimConsecutive(x, y) ==
    \E k \in 1..Len(rim_vertices) :
       \/ rim_vertices[k] = x /\ RimSuccessor(k) = y
       \/ rim_vertices[k] = y /\ RimSuccessor(k) = x

(* the rim edges are clockwise only; the edges between the rim and the
   interior lead inwards only *)
RimIsDirected ==
    /\ \A k \in 1..Len(rim_vertices) :
          /\ <<rim_vertices[k], RimSuccessor(k)>> \in board
          /\ <<RimSuccessor(k), rim_vertices[k]>> \notin board
    /\ \A j \in Vertices, r \in Vertices :
          (~OnBoundary(j) /\ OnBoundary(r) /\ LatticeAdjacent(n, j, r))
             => (<<r, j>> \in board /\ <<j, r>> \notin board)

(* the pairs RimIsDirected does not speak about *)
OtherPairs ==
    { p \in Vertices \X Vertices :
        /\ p[1] # p[2]
        /\ ~RimConsecutive(p[1], p[2])
        /\ ~(/\ LatticeAdjacent(n, p[1], p[2])
              /\ OnBoundary(p[1]) # OnBoundary(p[2])) }

(* the k-th vertex met when walking the boundary clockwise from vertex 0:
   top row left to right, right column downwards, bottom row right to left,
   left column upwards; a vertex is row * n + column *)
ClockwiseBoundary(k) ==
    IF k <= n THEN k - 1
    ELSE IF k <= n + m - 1 THEN (k - n) * n + (n - 1)
    ELSE IF k <= 2*n + m - 2 THEN (m - 1) * n + (n - 1 - (k - (n + m - 1)))
    ELSE (m - 1 - (k - (2*n + m - 2))) * n

(* the tour a call that has just accepted stands for *)
AcceptedTour == Append(solution_path, vertice_to_visit)

----------------------------------------------------------------------------
(* C1: on every grid with n <= m and n*m even, the run ends with
   solutions_counter equal to the number of undirected Hamiltonian cycles
   of the n x m grid graph found by brute force. *)
C1_CountEqualsBruteForce ==
    (Ended /\ n <= m /\ (n * m) % 2 = 0)
        => metrics.solutions_counter = HamiltonianCycles(n, m)

(* C2: when a call accepts, solution_path followed by the vertex entered
   contains each of the n*m vertices exactly once. *)
C2_AcceptedTourVisitsEachVertexOnce ==
    pc = "accepted"
        => /\ Len(AcceptedTour) = n * m
           /\ \A x \in 0..n*m-1 :
                Cardinality({k \in 1..Len(AcceptedTour) :
                                AcceptedTour[k] = x}) = 1

(* a tour has been accepted on a grid that has interior vertices *)
C2_Witness == pc = "accepted" /\ n >= 3 /\ m >= 3

(* C3: when a call accepts, the tour starts at vertex 0, every two
   consecutive vertices are lattice-adjacent and the last vertex is
   lattice-adjacent to vertex 0; so every vertex, the corners included,
   has exactly two incident tour edges. *)
C3_AcceptedTourIsClosedCycle ==
    pc = "accepted"
        => LET t == AcceptedTour
               succ(k) == IF k = Len(t) THEN t[1] ELSE t[k + 1]
               tourEdges == { {t[k], succ(k)} : k \in 1..Len(t) }
           IN  /\ t[1] = 0
               /\ \A k \in 1..Len(t) : LatticeAdjacent(n, t[k], succ(k))
               /\ \A x \in 0..n*m-1 :
                    Cardinality({e \in tourEdges : x \in e}) = 2

(* a tour that leaves the rim for the interior has been accepted *)
C3_Witness ==
    /\ pc = "accepted"
    /\ \E k \in 1..Len(solution_path) :
          ~Contains(rim_vertices, solution_path[k])

(* C4 as stated: the run on the 2 x 6 grid ends with 16 solutions. *)
C4_TwoBySixGivesSixteen ==
    (Ended /\ n = 2 /\ m = 6)
        => (pc = "done" /\ metrics.solutions_counter = 16)

(* C4, amended: the run on the 2 x 6 grid returns with solutions_counter
   equal to exactly 1. *)
C4_TwoBySixGivesOne ==
    (Ended /\ n = 2 /\ m = 6)
        => (pc = "done" /\ metrics.solutions_counter = 1)

C4_Witness == pc = "done" /\ n = 2 /\ m = 6 /\ metrics.check_counter = 12

(* C5: the run on the 4 x 4 grid runs to completion and ends with a
   strictly positive solutions_counter. *)
C5_FourByFourCompletesPositive ==
    (Ended /\ n = 4 /\ m = 4)
        => (pc = "done" /\ metrics.solutions_counter > 0)

(* C6: on a valid input the search never aborts, and the rim-progress
   index used in rim_vertices[visited_rim_vertices] is always smaller than
   rim_vertices.len(). *)
C6_NoAbortIndexInRange ==
    ValidInput
        => /\ pc # "panic"
           /\ (pc = "loop" /\ Top.i < n * m /\ NeedsReturnEdge)
                 => metrics.visited_rim_vertices < Len(rim_vertices)

(* C7: on a grid with n*m odd the run terminates without abort and ends
   with solutions_counter equal to 0. *)
C7_OddGridReturnsZero ==
    (Ended /\ (n * m) % 2 = 1)
        => (pc = "done" /\ metrics.solutions_counter = 0)

(* C8: the run on the 2 x 2 grid ends with solutions_counter equal to 1. *)
C8_TwoByTwoGivesOne ==
    (Ended /\ n = 2 /\ m = 2)
        => (pc = "done" /\ metrics.solutions_counter = 1)

C8_Witness == pc = "done" /\ n = 2 /\ m = 2 /\ metrics.check_counter = 4

(* C9: for n*m even, the run on (n, m) and the run on (m, n) both return
   and their final solutions_counter values are equal. *)
C9_TransposeSameCount ==
    (/\ Ended
     /\ prior # <<>>
     /\ prior.n = m /\ prior.m = n
     /\ (n * m) % 2 = 0)
        => /\ prior.pc = "done"
           /\ pc = "done"
           /\ prior.metrics.solutions_counter = metrics.solutions_counter

(* C10: on a valid input the top-level call of check_board eventually
   returns. *)
C10_TopLevelCallReturns == ValidInput => <>(pc = "done")

(* C11: the recursion depth of check_board never exceeds n*m, and the call
   that accepts a tour is at depth exactly n*m. *)
C11_DepthAtMostSizeAcceptAtSize ==
    /\ CallDepth <= n * m
    /\ pc = "accepted" => Len(stack) + 1 = n * m

(* a tour has been accepted by a call at depth n*m, above n*m - 1 calls that
   wait in their loop *)
C11_Witness ==
    /\ pc = "accepted"
    /\ Len(stack) = n * m - 1
    /\ n * m >= 12

(* C12: two runs on the same (n, m), each from a fresh board, path and
   Metrics, end in the same way with the same solutions_counter,
   check_counter and fail counters. *)
C12_SameInputSameCounters ==
    (Ended /\ prior # <<>> /\ prior.n = n /\ prior.m = m)
        => /\ prior.pc = pc
           /\ prior.metrics.solutions_counter = metrics.solutions_counter
           /\ prior.metrics.check_counter = metrics.check_counter
           /\ prior.metrics.fail_counter_1 = metrics.fail_counter_1
           /\ prior.metrics.fail_counter_2 = metrics.fail_counter_2
           /\ prior.metrics.fail_counter_3 = metrics.fail_counter_3

(* a second run on the same grid has returned, as the first did, after a
   search that entered at least 12 vertices *)
C12_Witness ==
    /\ pc = "done"
    /\ prior # <<>>
    /\ prior.n = n /\ prior.m = m
    /\ prior.pc = "done"
    /\ metrics.check_counter >= 12

(* C13: metrics.visited_rim_vertices equals the number of rim vertices among
   the vertices of the active calls, so that
   rim_vertices[visited_rim_vertices] is the first rim vertex in clockwise
   order that is not on the path. *)
C13_RimCountFollowsPath ==
    pc = "loop"
        => /\ metrics.visited_rim_vertices = Cardinality(RimCalls)
           /\ \A k \in 1..Len(rim_vertices) :
                 Contains(solution_path, rim_vertices[k])
                    <=> k <= metrics.visited_rim_vertices

(* C14: board[i][i] is true exactly for the vertices i on solution_path;
   vertex 0 stays marked as long as it is on the path. *)
C14_DiagonalIsPath ==
    Searching
        => \A x \in 0..n*m-1 :
              <<x, x>> \in board <=> Contains(solution_path, x)

(* C15 as stated: at most one return edge is open at any time, and none in
   the initial board. *)
C15_AtMostOneReturnEdge ==
    /\ Cardinality(ReturnEdges) <= 1
    /\ BoardInitialized => ReturnEdges = {}

(* C15, amended: at most one return edge is open per active call at a rim
   vertex: every open return edge is the edge stored by an active call at a
   rim vertex, and none is open in the initial board. *)
C15_OneReturnEdgePerRimCall ==
    /\ \A e \in ReturnEdges :
          \E k \in RimCalls :
             e = <<stack[k].store_j, stack[k].store_next_rim_vertice>>
    /\ Cardinality(ReturnEdges) <= Cardinality(RimCalls)
    /\ BoardInitialized => ReturnEdges = {}

(* two return edges are open at once *)
C15_Witness == Cardinality(ReturnEdges) >= 2

(* C16: when a call of check_board returns, every off-diagonal entry of the
   board has the value it had when the call was entered: what the call
   opened it has closed, and it has closed nothing else. *)
C16_ReturnRestoresOffDiagonal ==
    [][ /\ (pc = "loop" /\ pc' = "backtracked")
            => OffDiagonal(board') = Top.board_on_entry
        /\ (pc = "call" /\ pc' \in {"accepted", "rejected"})
            => OffDiagonal(board') = OffDiagonal(board) ]_vars

(* a call has just backtracked while return edges are open *)
C16_Witness ==
    /\ pc = "backtracked"
    /\ ReturnEdges # {}
    /\ metrics.fail_counter_3 >= 2

(* C17: when a call enters a rim vertex v, this makes the rim-progress
   counter equal to rim_vertices.len() and fewer than n*m vertices are
   visited, the call rejects at once: fail_counter_2 is incremented, v is
   neither marked nor pushed, no call is made, solutions_counter is
   unchanged. *)
C17_RimExhaustedRejectsAtOnce ==
    [][ (/\ pc = "call"
         /\ Contains(rim_vertices, vertice_to_visit)
         /\ metrics.visited_rim_vertices + 1 = Len(rim_vertices)
         /\ metrics.visited_vertices + 1 < n * m)
        => /\ pc' = "rejected"
           /\ metrics'.fail_counter_2 = metrics.fail_counter_2 + 1
           /\ metrics'.solutions_counter = metrics.solutions_counter
           /\ metrics'.visited_vertices = metrics.visited_vertices
           /\ board' = board
           /\ <<vertice_to_visit, vertice_to_visit>> \notin board'
           /\ solution_path' = solution_path
           /\ ~Contains(solution_path', vertice_to_visit)
           /\ stack' = stack ]_vars

(* a call has just rejected a rim vertex: the rim is exhausted and vertices
   remain *)
C17_Witness ==
    /\ pc = "rejected"
    /\ metrics.fail_counter_2 >= 1
    /\ metrics.visited_rim_vertices = Len(rim_vertices)
    /\ metrics.visited_vertices + 1 < n * m
    /\ ~Contains(solution_path, vertice_to_visit)

(* C18: a call at a rim vertex v descends to an interior neighbour i only
   if the next expected rim vertex r = rim_vertices[visited_rim_vertices]
   has an unvisited interior neighbour j; board[j][r] is then true during
   the whole descent; if there is no such j, i is skipped and no call is
   made for it. *)
C18_DescentNeedsReturnEdge ==
    /\ [](/\ (/\ pc = "call"
              /\ stack # <<>>
              /\ Top.at_the_rim
              /\ ~Contains(rim_vertices, vertice_to_visit))
             => /\ metrics.visited_rim_vertices < Len(rim_vertices)
                /\ LET r == rim_vertices[metrics.visited_rim_vertices + 1]
                       j == Top.store_j
                   IN  /\ Top.store_next_rim_vertice = r
                       /\ j \in 0..n*m-1
                       /\ ~Contains(rim_vertices, j)
                       /\ LatticeAdjacent(n, j, r)
                       /\ <<j, j>> \notin board
                       /\ <<j, r>> \in board
          /\ \A k \in 1..Len(stack) :
                (/\ Descending(k)
                 /\ stack[k].at_the_rim
                 /\ ~Contains(rim_vertices, stack[k].i))
                => /\ <<stack[k].store_j, stack[k].store_next_rim_vertice>>
                         \in board
                   /\ ~Contains(rim_vertices, stack[k].store_j)
                   /\ Contains(rim_vertices, stack[k].store_next_rim_vertice))
    /\ [][ (/\ pc = "loop"
            /\ Top.i < n * m
            /\ NeedsReturnEdge
            /\ metrics.visited_rim_vertices < Len(rim_vertices)
            /\ ~\E j \in 0..n*m-1 :
                  /\ LatticeAdjacent(n, j,
                        rim_vertices[metrics.visited_rim_vertices + 1])
                  /\ ~Contains(rim_vertices, j)
                  /\ <<j, j>> \notin board)
           => /\ pc' = "loop"
              /\ Len(stack') = Len(stack)
              /\ stack'[Len(stack)].i = Top.i + 1
              /\ metrics' = metrics
              /\ board' = board ]_vars

(* a call at a rim vertex has just descended to an interior vertex *)
C18_Witness ==
    /\ pc = "call"
    /\ stack # <<>>
    /\ Top.at_the_rim
    /\ ~Contains(rim_vertices, vertice_to_visit)
    /\ <<Top.store_j, Top.store_next_rim_vertice>> \in ReturnEdges

(* C19 as stated: after initialize_board the edges between cyclically
   consecutive rim vertices are clockwise only, the edges between the rim
   and the interior lead inwards only, and every other off-diagonal entry
   is true exactly when the two vertices are lattice-adjacent. *)
C19_BoardIsDirectedGrid ==
    BoardInitialized
        => /\ RimIsDirected
           /\ board \subseteq Vertices \X Vertices
           /\ \A p \in OtherPairs :
                 p \in board <=> LatticeAdjacent(n, p[1], p[2])

(* C19, amended: as stated, except that every other off-diagonal entry is
   true exactly when the two vertices are lattice-adjacent and not both on
   the rim (on a grid two vertices wide or high the inner rungs join two
   rim vertices that are not consecutive: these entries are false in both
   directions). *)
C19_BoardIsDirectedGridNoRimChords ==
    BoardInitialized
        => /\ RimIsDirected
           /\ board \subseteq Vertices \X Vertices
           /\ \A p \in OtherPairs :
                 p \in board <=> (/\ LatticeAdjacent(n, p[1], p[2])
                                  /\ ~(OnBoundary(p[1]) /\ OnBoundary(p[2])))

(* a board with rim and interior vertices has just been initialized *)
C19_Witness ==
    /\ BoardInitialized
    /\ \E x \in Vertices : ~OnBoundary(x)
    /\ board # {}

(* C20: after initialize_board rim_vertices has length 2n + 2m - 4, has no
   duplicate, holds exactly the boundary vertices, and lists them clockwise
   from vertex 0, ending at vertex n. *)
C20_RimIsClockwiseBoundary ==
    pc # "init"
        => /\ Len(rim_vertices) = 2*n + 2*m - 4
           /\ \A k, l \in 1..Len(rim_vertices) :
                 rim_vertices[k] = rim_vertices[l] => k = l
           /\ { rim_vertices[k] : k \in 1..Len(rim_vertices) }
                 = { x \in Vertices : OnBoundary(x) }
           /\ \A k \in 1..Len(rim_vertices) :
                 rim_vertices[k] = ClockwiseBoundary(k)
           /\ rim_vertices[1] = 0
           /\ rim_vertices[Len(rim_vertices)] = n

(* the rim of a grid with interior vertices has just been built *)
C20_Witness ==
    /\ BoardInitialized
    /\ Len(rim_vertices) >= 10
    /\ Len(rim_vertices) < n * m

(* C21: when the top-level call of check_board has returned, solution_path
   is empty, no diagonal entry of board is set, metrics.visited_vertices is
   0, and the off-diagonal part of board is the one initialize_board built,
   so no return edge is left open. *)
C21_ReturnedSearchStateIsInitial ==
    pc = "done" =>
        /\ solution_path = <<>>
        /\ \A x \in Vertices : <<x, x>> \notin board
        /\ metrics.visited_vertices = 0
        /\ OffDiagonal(board) = OffDiagonal(GridEdges(n, m) \ RimCuts(n, m))
        /\ ReturnEdges = {}

(* a returned top-level call on twelve vertices or more: every vertex but
   the last was marked, pushed and given up again *)
C21_Witness ==
    /\ pc = "done"
    /\ n * m >= 12
    /\ metrics.check_counter >= n * m
    /\ metrics.fail_counter_3 >= n * m - 1
    /\ solution_path = <<>>
    /\ \A x \in Vertices : <<x, x>> \notin board

(* the calls of check_board that were entered and have not ended *)
ActiveCalls == Len(stack)

(* the calls that ended: accepted, rejected at the rim, or loop exhausted *)
EndedCalls ==
    metrics.solutions_counter + metrics.fail_counter_2
        + metrics.fail_counter_3

(* C22: at every point of the run check_counter minus the sum of
   solutions_counter, fail_counter_2 and fail_counter_3 is the number of
   calls still active, every ending call adds exactly one to exactly one of
   the three counters, and when the top-level call has returned
   check_counter equals that sum. *)
C22_EveryCallCountedOnce ==
    /\ [](metrics.check_counter - EndedCalls = ActiveCalls)
    /\ [](pc = "done" => metrics.check_counter = EndedCalls)
    /\ [][(pc \in {"call", "loop"} /\ Returned')
            => \/ /\ metrics'.solutions_counter = metrics.solutions_counter + 1
                  /\ metrics'.fail_counter_2 = metrics.fail_counter_2
                  /\ metrics'.fail_counter_3 = metrics.fail_counter_3
               \/ /\ metrics'.solutions_counter = metrics.solutions_counter
                  /\ metrics'.fail_counter_2 = metrics.fail_counter_2 + 1
                  /\ metrics'.fail_counter_3 = metrics.fail_counter_3
               \/ /\ metrics'.solutions_counter = metrics.solutions_counter
                  /\ metrics'.fail_counter_2 = metrics.fail_counter_2
                  /\ metrics'.fail_counter_3 = metrics.fail_counter_3 + 1]_vars

(* a returned top-level call with an accepted call and exhausted loops *)
C22_Witness ==
    /\ pc = "done"
    /\ metrics.solutions_counter = 1
    /\ metrics.fail_counter_3 >= 4
    /\ metrics.check_counter = EndedCalls

(* a rim rejection counted while five or more calls are still active *)
C22_WitnessActive ==
    /\ pc = "rejected"
    /\ metrics.fail_counter_2 >= 1
    /\ ActiveCalls >= 5
    /\ metrics.check_counter - EndedCalls = ActiveCalls

====
